---- MODULE Spec2Model ----
(***************************************************************************)
(* Model of the hiking itinerary helper (main_v01.py): the session record  *)
(* kept between reruns of the page, the search handler, the form handler,  *)
(* the itinerary text composer generate_full_details and the calendar      *)
(* date-range token.                                                       *)
(*                                                                         *)
(* Text is modelled as sequences of one-character strings.  A line of the  *)
(* itinerary is a record [tag, args]: the tag names the fixed template of  *)
(* the line (its literal label), args are the values formatted into it.    *)
(* Python values that reach comparisons and slices are tagged records      *)
(* (number, string, None, NaN, missing dict key), so that the TypeError a  *)
(* comparison or a slice raises is part of the model.                      *)
(***************************************************************************)
EXTENDS Integers, Sequences, FiniteSets, TLC

VARIABLES
    map_coords,         \* st.session_state.map_coords: NoCoords or <<lat, lon>>
    searched_mountain,  \* st.session_state.searched_mountain: text
    weather_df,         \* st.session_state.weather_df: NoTable or sequence of rows
    df_origin,          \* history: the search (term, coords) weather_df was fetched for
    recent_search,      \* history: outcome of the most recent search run
    run,                \* what the last rerun of the script did
    notice,             \* message the search handler displayed in the last rerun
    form,               \* the inputs of the last form submission / function call
    day_weather_info,   \* the weather_info handed to generate_full_details
    details_text,       \* result of generate_full_details (or the raised error)
    cal_title,          \* title of the calendar event
    dates_str,          \* the "dates" token of the calendar link
    map_url             \* the navigation link built by the form handler

vars == <<map_coords, searched_mountain, weather_df, df_origin, recent_search,
          run, notice, form, day_weather_info, details_text, cal_title,
          dates_str, map_url>>

----------------------------------------------------------------------------
(* Bounds of the model *)

\* number of daily records in a forecast response
ForecastDays == 2

\* number of calendar years the date picker ranges over, from 2023 on
NumYears == 2

----------------------------------------------------------------------------
(* Policy constants of the program *)

RainThreshold == 30
ColdThreshold == 10
TailLen == 5
DividerLen == 20
EventHours == 6
DefaultRain == 0

----------------------------------------------------------------------------
(* Python values *)

Num(n) == [k |-> "num", n |-> n, s |-> <<>>]
Str(s) == [k |-> "str", n |-> 0, s |-> s]
PyNone == [k |-> "none", n |-> 0, s |-> <<>>]
NaN == [k |-> "nan", n |-> 0, s |-> <<>>]
Missing == [k |-> "missing", n |-> 0, s |-> <<>>]

\* dict.get(key, default)
Get(v, default) == IF v.k = "missing" THEN default ELSE v

\* x >= n and x < n: defined on numbers, False on NaN, TypeError otherwise
CmpRaises(x) == x.k \notin {"num", "nan"}
GreaterEq(x, n) == x.k = "num" /\ x.n >= n
LessThan(x, n) == x.k = "num" /\ x.n < n

\* x[-5:]: the last TailLen characters of a string, TypeError otherwise
SliceRaises(x) == x.k # "str"
LastChars(s) == IF Len(s) <= TailLen THEN s ELSE SubSeq(s, Len(s) - TailLen + 1, Len(s))
Tail5(x) == Str(LastChars(x.s))

----------------------------------------------------------------------------
(* Text *)

Digits == <<"0", "1", "2", "3", "4", "5", "6", "7", "8", "9">>

RECURSIVE Pad(_, _)
\* strftime's zero-padded decimal field of the given width
Pad(n, width) ==
    IF width = 0 THEN <<>>
    ELSE Append(Pad(n \div 10, width - 1), Digits[(n % 10) + 1])

Unreserved == {"A", "B", "C", "D", "_", ".", "-", "~", "/"}

RECURSIVE quote(_)
\* urllib.parse.quote: unreserved characters and "/" kept, a space becomes %20
quote(s) ==
    IF s = <<>> THEN <<>>
    ELSE (IF Head(s) \in Unreserved THEN <<Head(s)>>
          ELSE IF Head(s) = " " THEN <<"%", "2", "0">>
          ELSE <<"%", "?", "?">>) \o quote(Tail(s))

----------------------------------------------------------------------------
(* Calendar arithmetic of datetime: dates are <<year, month, day>> *)

IsLeap(y) == y % 4 = 0 /\ (y % 100 # 0 \/ y % 400 = 0)

DaysInMonth(y, m) ==
    IF m = 2 THEN (IF IsLeap(y) THEN 29 ELSE 28)
    ELSE IF m \in {4, 6, 9, 11} THEN 30 ELSE 31

DaysBeforeYear(y) ==
    (y - 1) * 365 + ((y - 1) \div 4) - ((y - 1) \div 100) + ((y - 1) \div 400)

RECURSIVE DaysBeforeMonth(_, _)
DaysBeforeMonth(y, m) ==
    IF m = 1 THEN 0 ELSE DaysBeforeMonth(y, m - 1) + DaysInMonth(y, m - 1)

\* date.toordinal()
Ymd2Ord(d) == DaysBeforeYear(d[1]) + DaysBeforeMonth(d[1], d[2]) + d[3]

\* date.fromordinal(n)
Ord2Ymd(ord) ==
    LET n0 == ord - 1
        n400 == n0 \div 146097
        r400 == n0 % 146097
        n100 == r400 \div 36524
        r100 == r400 % 36524
        n4 == r100 \div 1461
        r4 == r100 % 1461
        n1 == r4 \div 365
        n == r4 % 365
        year == n400 * 400 + 1 + n100 * 100 + n4 * 4 + n1
        leapyear == n1 = 3 /\ (n4 # 24 \/ n100 = 3)
        guess == (n + 50) \div 32
        before(m) == DaysBeforeMonth(IF leapyear THEN 4 ELSE 1, m)
        month == IF before(guess) > n THEN guess - 1 ELSE guess
    IN  IF n1 = 4 \/ n100 = 4 THEN <<year - 1, 12, 31>>
        ELSE <<year, month, n - before(month) + 1>>

\* variant: the hours added to the hour field, the date left alone
AddHours_NoCarry(d, t, h) == <<d, <<t[1] + h, t[2], t[3]>>>>

\* datetime.combine(date, time) + timedelta(hours=h): <<date, <<hour, minute, second>>>>
AddHours(d, t, h) ==
    LET secs == t[1] * 3600 + t[2] * 60 + t[3] + h * 3600
        days == Ymd2Ord(d) + (secs \div 86400)
        rem == secs % 86400
    IN  <<Ord2Ymd(days), <<rem \div 3600, (rem % 3600) \div 60, rem % 60>>>>

\* strftime("%Y%m%dT%H%M%S")
FmtCompact(d, t) ==
    Pad(d[1], 4) \o Pad(d[2], 2) \o Pad(d[3], 2) \o <<"T">>
        \o Pad(t[1], 2) \o Pad(t[2], 2) \o Pad(t[3], 2)

\* strftime("%Y-%m-%d")
FmtIso(d) == Pad(d[1], 4) \o <<"-">> \o Pad(d[2], 2) \o <<"-">> \o Pad(d[3], 2)

\* start_dt, end_dt and the date-range token of the calendar link
DatesStr(d, t) ==
    LET end_dt == AddHours(d, t, EventHours)
    IN  FmtCompact(d, t) \o <<"/">> \o FmtCompact(end_dt[1], end_dt[2])

----------------------------------------------------------------------------
(* generate_full_details *)

\* one entry of the details list: nl is the "\n" the template starts with
Line(tag, nl, args) == [tag |-> tag, nl |-> nl, args |-> args]

RECURSIVE Dashes(_)
Dashes(n) == IF n = 0 THEN <<>> ELSE <<"-">> \o Dashes(n - 1)

\* "\n" + "-"*20 + "\n"
Divider == Line("divider", TRUE, <<Str(Dashes(DividerLen) \o <<"\n">>)>>)

\* the map-search link of a destination
MapUrl(name) == <<"https://www.google.com/maps/search/?api=1&query=">> \o quote(name)

\* the trail-notes search link of a destination
BijiLink(name) ==
    <<"https://hiking.biji.co/index.php?q=">> \o quote(name) \o <<"&node=search">>

\* weather_info: None, or a dict in which each of the five keys may be missing
NoWeather ==
    [present |-> FALSE, max_temp |-> Missing, min_temp |-> Missing,
     rain_prob |-> Missing, sunrise |-> Missing, sunset |-> Missing]

WeatherDict(mx, mn, rain, rise, set) ==
    [present |-> TRUE, max_temp |-> mx, min_temp |-> mn,
     rain_prob |-> rain, sunrise |-> rise, sunset |-> set]

\* "if weather_info:" - None and the empty dict are false
Truthy(w) ==
    /\ w.present
    /\ \E v \in {w.max_temp, w.min_temp, w.rain_prob, w.sunrise, w.sunset} :
          v.k # "missing"

MaxT(w) == Get(w.max_temp, Str(<<"?">>))
MinT(w) == Get(w.min_temp, Str(<<"?">>))
Rain(w) == Get(w.rain_prob, Num(DefaultRain))
Sunrise(w) == Get(w.sunrise, Str(<<"unknown">>))
Sunset(w) == Get(w.sunset, Str(<<"unknown">>))

\* part 1: the notes, under their heading, followed by a divider
NotesSection(custom_notes) ==
    IF custom_notes # <<>>
    THEN <<Line("notes_heading", FALSE, <<>>),
           Line("notes", FALSE, <<Str(custom_notes)>>),
           Divider>>
    ELSE <<>>

\* variant: the navigation link without its divider
NavSection_NoDivider(mountain_name) ==
    <<Line("nav", FALSE, <<Str(MapUrl(mountain_name))>>)>>

\* part 2: the navigation link, followed by a divider
NavSection(mountain_name) ==
    <<Line("nav", FALSE, <<Str(MapUrl(mountain_name))>>), Divider>>

\* part 3, first lines: destination and optional route
HeaderSection(mountain_name, route_name) ==
    <<Line("destination", FALSE, <<Str(mountain_name)>>)>>
        \o (IF route_name # <<>>
            THEN <<Line("route", FALSE, <<Str(route_name)>>)>>
            ELSE <<>>)

\* the statements of the forecast branch that raise TypeError
ForecastRaises(w) ==
    \/ SliceRaises(Sunrise(w))
    \/ SliceRaises(Sunset(w))
    \/ CmpRaises(Rain(w))
    \/ CmpRaises(MinT(w))

\* variant: a strict comparison with the rain threshold
RainWarning_Strict(w) ==
    IF Rain(w).k = "num" /\ Rain(w).n > RainThreshold
    THEN <<Line("rain_warning", FALSE, <<>>)>> ELSE <<>>

RainWarning(w) ==
    IF GreaterEq(Rain(w), RainThreshold)
    THEN <<Line("rain_warning", FALSE, <<>>)>> ELSE <<>>

ColdWarning(w) ==
    IF LessThan(MinT(w), ColdThreshold)
    THEN <<Line("cold_warning", FALSE, <<>>)>> ELSE <<>>

\* part 3, forecast branch
ForecastSection(w) ==
    <<Line("forecast_heading", TRUE, <<>>),
      Line("temperature", FALSE, <<MinT(w), MaxT(w)>>),
      Line("rain", FALSE, <<Rain(w)>>),
      Line("sun", FALSE, <<Tail5(Sunrise(w)), Tail5(Sunset(w))>>)>>
        \o RainWarning(w) \o ColdWarning(w)

\* variant: April counted into the plum-rain season
SeasonalAdvisory_April(month) ==
    IF month \in {12, 1, 2, 3} THEN <<Line("ice_warning", FALSE, <<>>)>>
    ELSE IF month \in {4, 5, 6} THEN <<Line("plum_rain_warning", FALSE, <<>>)>>
    ELSE IF month \in {7, 8, 9} THEN <<Line("typhoon_warning", FALSE, <<>>)>>
    ELSE <<>>

SeasonalAdvisory(month) ==
    IF month \in {12, 1, 2, 3} THEN <<Line("ice_warning", FALSE, <<>>)>>
    ELSE IF month \in {5, 6} THEN <<Line("plum_rain_warning", FALSE, <<>>)>>
    ELSE IF month \in {7, 8, 9} THEN <<Line("typhoon_warning", FALSE, <<>>)>>
    ELSE <<>>

\* part 3, no-forecast branch
SeasonalSection(date_obj) ==
    <<Line("seasonal_heading", TRUE, <<>>),
      Line("far_date_notice", FALSE, <<>>)>>
        \o SeasonalAdvisory(date_obj[2])

\* variant: the seasonal reminder emitted whatever the forecast branch did
WeatherSection_NoElse(date_obj, weather_info) ==
    (IF Truthy(weather_info) THEN ForecastSection(weather_info) ELSE <<>>)
        \o SeasonalSection(date_obj)

WeatherSection(date_obj, weather_info) ==
    IF Truthy(weather_info) THEN ForecastSection(weather_info)
    ELSE SeasonalSection(date_obj)

\* part 4: the fixed checklist
GearSection ==
    <<Line("gear_heading", TRUE, <<>>),
      Line("gear_documents", FALSE, <<>>),
      Line("gear_headlamp", FALSE, <<>>),
      Line("gear_rainwear", FALSE, <<>>),
      Line("gear_water_food", FALSE, <<>>)>>

\* part 5: the trail-notes link
TrailSection(mountain_name) ==
    <<Line("trail_link", TRUE, <<Str(BijiLink(mountain_name))>>)>>

NoText == [st |-> "none", lines |-> <<>>]
Raised == [st |-> "raised", lines |-> <<>>]
Text(lines) == [st |-> "text", lines |-> lines]

\* the function: the joined lines, or the TypeError of the forecast branch
generate_full_details(mountain_name, route_name, date_obj, weather_info, custom_notes) ==
    IF Truthy(weather_info) /\ ForecastRaises(weather_info) THEN Raised
    ELSE Text(NotesSection(custom_notes)
              \o NavSection(mountain_name)
              \o HeaderSection(mountain_name, route_name)
              \o WeatherSection(date_obj, weather_info)
              \o GearSection
              \o TrailSection(mountain_name))

----------------------------------------------------------------------------
(* The collaborators: what the geocoder and the forecast service may answer *)

Names == {<<"A">>, <<"B", " ", "C">>}

\* the day the session runs on
Today == <<2024, 1, 14>>

\* the dates of a forecast response: ForecastDays days from today on
WindowDate(i) == Ord2Ymd(Ymd2Ord(Today) + i - 1)
WindowDates == {WindowDate(i) : i \in 1..ForecastDays}

NoLocation == [found |-> FALSE, lat |-> 0, lon |-> 0]
Location(lat, lon) == [found |-> TRUE, lat |-> lat, lon |-> lon]

\* where the geocoder puts a name when it finds it
Place(name) == IF name = <<"A">> THEN Location(24, 121) ELSE Location(23, 120)

\* the geocoder finds the place, finds nothing, fails, or finds a point on the equator
GeoAnswers == {"place", "none", "error", "equator"}

\* get_coordinates: (lat, lon) of the first match, (None, None) on no match or error
get_coordinates(place_name, answer) ==
    IF answer = "place" THEN Place(place_name)
    ELSE IF answer = "equator" THEN Location(0, 121)
    ELSE NoLocation

\* the daily records the service may send for one day (null is PyNone)
DayKinds == {"cold_wet", "no_rain_value"}

RawDay(date, kind) ==
    [date |-> Str(FmtIso(date)),
     max_temp |-> IF kind = "cold_wet" THEN Num(5) ELSE Num(25),
     min_temp |-> IF kind = "cold_wet" THEN Num(-2) ELSE Num(10),
     rain_prob |-> IF kind = "cold_wet" THEN Num(60) ELSE PyNone,
     sunrise |-> Str(FmtIso(date) \o <<"T", "0", "6", ":", "3", "0">>),
     sunset |-> Str(FmtIso(date) \o <<"T", "1", "7", ":", "1", "0">>)]

Responses == [1..ForecastDays -> DayKinds]

\* a numeric column of the DataFrame: a null among numbers becomes NaN, a
\* column of nulls only stays a column of None
NumColumn(rows, i, field) ==
    IF rows[i][field].k = "none" /\ \E j \in DOMAIN rows : rows[j][field].k = "num"
    THEN NaN ELSE rows[i][field]

NoTable == [has |-> FALSE, rows |-> <<>>]

\* pd.DataFrame of the daily records
DataFrame(kinds) ==
    LET raw == [i \in 1..ForecastDays |-> RawDay(WindowDate(i), kinds[i])]
    IN  [has |-> TRUE,
         rows |-> [i \in 1..ForecastDays |->
                     [date |-> raw[i].date,
                      max_temp |-> NumColumn(raw, i, "max_temp"),
                      min_temp |-> NumColumn(raw, i, "min_temp"),
                      rain_prob |-> NumColumn(raw, i, "rain_prob"),
                      sunrise |-> raw[i].sunrise,
                      sunset |-> raw[i].sunset]]]

\* get_weather_forecast: the table, or None when the request or the parse fails
ForecastResults == {NoTable} \cup {DataFrame(kinds) : kinds \in Responses}

----------------------------------------------------------------------------
(* The page: session record, search handler, form handler *)

NoCoords == [has |-> FALSE, lat |-> 0, lon |-> 0]
Coords(loc) == [has |-> TRUE, lat |-> loc.lat, lon |-> loc.lon]

NoOrigin == [term |-> <<>>, coords |-> NoCoords]
NoForm ==
    [target_name |-> <<>>, route_name |-> <<>>, hiking_date |-> <<0, 0, 0>>,
     hiking_time |-> <<0, 0, 0>>, custom_notes |-> <<>>]
NoSearch == [outcome |-> "none", forecast |-> "not_called", located |-> "none"]

Init ==
    /\ map_coords = NoCoords
    /\ searched_mountain = <<>>
    /\ weather_df = NoTable
    /\ df_origin = NoOrigin
    /\ recent_search = NoSearch
    /\ run = "first"
    /\ notice = "none"
    /\ form = NoForm
    /\ day_weather_info = NoWeather
    /\ details_text = NoText
    /\ cal_title = <<>>
    /\ dates_str = <<>>
    /\ map_url = <<>>

\* a rerun that renders no itinerary
ClearOutputs ==
    /\ form' = NoForm
    /\ day_weather_info' = NoWeather
    /\ details_text' = NoText
    /\ cal_title' = <<>>
    /\ dates_str' = <<>>
    /\ map_url' = <<>>

\* the search found a location: remember it, then fetch its forecast
SearchLocated(search_input, loc, df) ==
    /\ map_coords' = Coords(loc)
    /\ searched_mountain' = search_input
    /\ IF df.has
       THEN /\ weather_df' = df
            /\ df_origin' = [term |-> search_input, coords |-> Coords(loc)]
            /\ notice' = "success_located"
       ELSE /\ UNCHANGED <<weather_df, df_origin>>
            /\ notice' = "warning_no_weather"
    /\ recent_search' = [outcome |-> "found",
                         forecast |-> IF df.has THEN "ok" ELSE "failed",
                         located |-> IF df.has THEN "ok" ELSE "failed"]

\* variant: a failed search resets the session record
SearchNotFound_Resets ==
    /\ map_coords' = NoCoords
    /\ searched_mountain' = <<>>
    /\ weather_df' = NoTable
    /\ df_origin' = NoOrigin
    /\ notice' = "error_not_found"
    /\ recent_search' = [recent_search EXCEPT !.outcome = "not_found",
                                              !.forecast = "not_called"]

\* the search found nothing: only the error message
SearchNotFound ==
    /\ UNCHANGED <<map_coords, searched_mountain, weather_df, df_origin>>
    /\ notice' = "error_not_found"
    /\ recent_search' = [recent_search EXCEPT !.outcome = "not_found",
                                              !.forecast = "not_called"]

\* "if btn_search and search_input": the search button with a name typed in
Search ==
    \E search_input \in Names, answer \in GeoAnswers :
        LET loc == get_coordinates(search_input, answer)
        IN  /\ IF loc.found /\ loc.lat # 0
               THEN \E df \in ForecastResults : SearchLocated(search_input, loc, df)
               ELSE SearchNotFound
            /\ run' = "search"
            /\ ClearOutputs

\* the row of the table for the selected date, as the weather_info dict
DayWeather(df, hiking_date) ==
    LET hits == {i \in DOMAIN df.rows : df.rows[i].date = Str(FmtIso(hiking_date))}
        first == CHOOSE i \in hits : \A j \in hits : i <= j
    IN  IF ~df.has \/ hits = {} THEN NoWeather
        ELSE WeatherDict(df.rows[first].max_temp, df.rows[first].min_temp,
                         df.rows[first].rain_prob, df.rows[first].sunrise,
                         df.rows[first].sunset)

CalTitle(target_name, route_name) ==
    IF route_name # <<>>
    THEN <<"mountain ">> \o target_name \o <<" - ">> \o route_name
    ELSE <<"mountain ">> \o target_name \o <<" hiking">>

Routes == {<<>>, <<"D">>}
Notes == {<<>>, <<"C", " ", "D">>}
FormDates == WindowDates \cup {<<2024, 8, 10>>}
FormTimes == {<<6, 0, 0>>}

\* "if submitted and target_name": the form with a destination filled in
Submit ==
    \E target_name \in Names, route_name \in Routes, hiking_date \in FormDates,
       hiking_time \in FormTimes, custom_notes \in Notes :
        LET info == DayWeather(weather_df, hiking_date)
            text == generate_full_details(target_name, route_name, hiking_date,
                                          info, custom_notes)
        IN  /\ form' = [target_name |-> target_name, route_name |-> route_name,
                        hiking_date |-> hiking_date, hiking_time |-> hiking_time,
                        custom_notes |-> custom_notes]
            /\ day_weather_info' = info
            /\ details_text' = text
            /\ IF text.st = "raised"
               THEN /\ cal_title' = <<>>
                    /\ dates_str' = <<>>
                    /\ map_url' = <<>>
               ELSE /\ cal_title' = CalTitle(target_name, route_name)
                    /\ dates_str' = DatesStr(hiking_date, hiking_time)
                    /\ map_url' = MapUrl(target_name)
            /\ run' = "submit"
            /\ notice' = "none"
            /\ UNCHANGED <<map_coords, searched_mountain, weather_df, df_origin,
                           recent_search>>

\* any other rerun: a button pressed with its text field empty
Rerun ==
    /\ run' = "idle"
    /\ notice' = "none"
    /\ ClearOutputs
    /\ UNCHANGED <<map_coords, searched_mountain, weather_df, df_origin,
                   recent_search>>

Next == Search \/ Submit \/ Rerun

Spec == Init /\ [][Next]_vars

----------------------------------------------------------------------------
(* generate_full_details called on its own, on every input of a bounded set *)

Stamp == Str(<<"2", "0", "2", "4", "-", "0", "1", "-", "1", "5", "T",
               "0", "6", ":", "3", "0">>)

MaxValues == {Missing, PyNone, Num(5)}
MinValues == {Missing, PyNone, NaN, Num(-2), Num(9), Num(10)}
RainValues == {Missing, PyNone, NaN, Num(0), Num(29), Num(30), Num(60)}
SunValues == {Missing, PyNone, Stamp}

WeatherInputs ==
    {NoWeather} \cup
    {WeatherDict(mx, mn, rain, rise, set) :
        mx \in MaxValues, mn \in MinValues, rain \in RainValues,
        rise \in SunValues, set \in SunValues}

MonthDates == {<<2024, m, 15>> : m \in 1..12}

\* the call's arguments
InitCompose ==
    /\ \E mountain_name \in Names, route_name \in Routes, date_obj \in MonthDates,
          custom_notes \in Notes :
           form = [target_name |-> mountain_name, route_name |-> route_name,
                   hiking_date |-> date_obj, hiking_time |-> <<6, 0, 0>>,
                   custom_notes |-> custom_notes]
    /\ day_weather_info \in WeatherInputs
    /\ run = "call"
    /\ map_coords = NoCoords
    /\ searched_mountain = <<>>
    /\ weather_df = NoTable
    /\ df_origin = NoOrigin
    /\ recent_search = NoSearch
    /\ notice = "none"
    /\ details_text = NoText
    /\ cal_title = <<>>
    /\ dates_str = <<>>
    /\ map_url = <<>>

\* the call
Compose ==
    /\ run = "call"
    /\ details_text' = generate_full_details(form.target_name, form.route_name,
                                             form.hiking_date, day_weather_info,
                                             form.custom_notes)
    /\ run' = "compose"
    /\ UNCHANGED <<map_coords, searched_mountain, weather_df, df_origin,
                   recent_search, notice, form, day_weather_info, cal_title,
                   dates_str, map_url>>

SpecCompose == InitCompose /\ [][Compose]_vars

----------------------------------------------------------------------------
(* The date-range token on every date and time of a bounded date picker *)

PickerYears == 2023..(2022 + NumYears)
PickerDates ==
    {<<y, m, d>> : y \in PickerYears, m \in 1..12, d \in 1..31} \ 
    {<<y, m, d>> \in PickerYears \X (1..12) \X (1..31) : d > DaysInMonth(y, m)}
PickerTimes == {<<h, m, 0>> : h \in 0..23, m \in {0, 45}}

\* the date and the time picked in the form
InitCal ==
    /\ \E hiking_date \in PickerDates, hiking_time \in PickerTimes :
           form = [target_name |-> <<"A">>, route_name |-> <<>>,
                   hiking_date |-> hiking_date, hiking_time |-> hiking_time,
                   custom_notes |-> <<>>]
    /\ run = "call"
    /\ map_coords = NoCoords
    /\ searched_mountain = <<>>
    /\ weather_df = NoTable
    /\ df_origin = NoOrigin
    /\ recent_search = NoSearch
    /\ notice = "none"
    /\ day_weather_info = NoWeather
    /\ details_text = NoText
    /\ cal_title = <<>>
    /\ dates_str = <<>>
    /\ map_url = <<>>

\* start_dt, end_dt and dates_str of the form handler
BuildDates ==
    /\ run = "call"
    /\ dates_str' = DatesStr(form.hiking_date, form.hiking_time)
    /\ run' = "dates"
    /\ UNCHANGED <<map_coords, searched_mountain, weather_df, df_origin,
                   recent_search, notice, form, day_weather_info, details_text,
                   cal_title, map_url>>

SpecCal == InitCal /\ [][BuildDates]_vars

----------------------------------------------------------------------------
(* Properties of the itinerary text (checked under SpecCompose) *)

\* the call has returned a text
Returned == run = "compose" /\ details_text.st = "text"

TagsOf(text) == {text.lines[i].tag : i \in DOMAIN text.lines}
CountOf(text, tags) == Cardinality({i \in DOMAIN text.lines : text.lines[i].tag \in tags})

\* C1: every text the function returns holds exactly one of the two weather
\* headings, the forecast heading or the seasonal heading: never both, never neither.
C1_ExactlyOneWeatherSection ==
    Returned => CountOf(details_text, {"forecast_heading", "seasonal_heading"}) = 1

C1_Witness ==
    /\ Returned
    /\ day_weather_info.present
    /\ "forecast_heading" \in TagsOf(details_text)
    /\ "seasonal_heading" \notin TagsOf(details_text)

\* C2: in a returned text the rain-gear warning is present exactly when a forecast day
\* was supplied with a rain probability >= 30, the cold warning exactly when it was
\* supplied with a minimum temperature < 10; each depends on its own field only, and
\* neither is present when no forecast day was supplied.
C2_WarningThresholds ==
    Returned =>
        /\ "rain_warning" \in TagsOf(details_text)
              <=> /\ day_weather_info.present
                  /\ day_weather_info.rain_prob.k = "num"
                  /\ day_weather_info.rain_prob.n >= 30
        /\ "cold_warning" \in TagsOf(details_text)
              <=> /\ day_weather_info.present
                  /\ day_weather_info.min_temp.k = "num"
                  /\ day_weather_info.min_temp.n < 10

\* rain exactly 30 and minimum exactly 10: the rain warning alone
C2_Witness ==
    /\ Returned
    /\ day_weather_info.rain_prob = Num(30)
    /\ day_weather_info.min_temp = Num(10)
    /\ "rain_warning" \in TagsOf(details_text)
    /\ "cold_warning" \notin TagsOf(details_text)

SeasonalTags == {"ice_warning", "plum_rain_warning", "typhoon_warning"}

ExpectedAdvisory(month) ==
    CASE month \in {12, 1, 2, 3} -> {"ice_warning"}
      [] month \in {5, 6} -> {"plum_rain_warning"}
      [] month \in {7, 8, 9} -> {"typhoon_warning"}
      [] month \in {4, 10, 11} -> {}

\* C3: with no forecast day, the returned text holds the generic notice and exactly
\* the seasonal advisory of the date's month (none for months 4, 10, 11); no text
\* ever holds more than one seasonal advisory.
C3_SeasonalMapping ==
    Returned =>
        /\ CountOf(details_text, SeasonalTags) <= 1
        /\ ~day_weather_info.present =>
              /\ "far_date_notice" \in TagsOf(details_text)
              /\ TagsOf(details_text) \cap SeasonalTags
                    = ExpectedAdvisory(form.hiking_date[2])

C3_Witness ==
    /\ Returned
    /\ ~day_weather_info.present
    /\ form.hiking_date[2] = 4
    /\ "far_date_notice" \in TagsOf(details_text)
    /\ TagsOf(details_text) \cap SeasonalTags = {}

\* C4: the function has no failure path: every call returns a text.
C4_NeverRaises == run = "compose" => details_text.st = "text"

SectionOf(tag) ==
    CASE tag \in {"notes_heading", "notes"} -> 1
      [] tag = "nav" -> 2
      [] tag \in {"destination", "route"} -> 3
      [] tag \in {"forecast_heading", "temperature", "rain", "sun", "rain_warning",
                  "cold_warning", "seasonal_heading", "far_date_notice"}
             \cup SeasonalTags -> 4
      [] tag \in {"gear_heading", "gear_documents", "gear_headlamp", "gear_rainwear",
                  "gear_water_food"} -> 5
      [] tag = "trail_link" -> 6
      [] tag = "divider" -> 0

\* the lines of a text without its dividers
RECURSIVE Content(_)
Content(lines) ==
    IF lines = <<>> THEN <<>>
    ELSE (IF Head(lines).tag = "divider" THEN <<>> ELSE <<Head(lines)>>)
             \o Content(Tail(lines))

\* sections come in the fixed order, with notes and route exactly when given and
\* four checklist lines
SectionsInOrder(text) ==
    LET c == Content(text.lines)
    IN  /\ \A i \in 1..(Len(c) - 1) : SectionOf(c[i].tag) <= SectionOf(c[i + 1].tag)
        /\ \A k \in 2..6 : \E i \in DOMAIN c : SectionOf(c[i].tag) = k
        /\ (\E i \in DOMAIN c : SectionOf(c[i].tag) = 1) <=> form.custom_notes # <<>>
        /\ CountOf(text, {"route"}) = (IF form.route_name # <<>> THEN 1 ELSE 0)
        /\ CountOf(text, {"destination"}) = 1
        /\ \A i \in DOMAIN c :
              c[i].tag = "route" => i > 1 /\ c[i - 1].tag = "destination"
        /\ CountOf(text, {"gear_documents", "gear_headlamp", "gear_rainwear",
                          "gear_water_food"}) = 4

DividerLine ==
    [tag |-> "divider", nl |-> TRUE,
     args |-> <<Str(<<"-", "-", "-", "-", "-", "-", "-", "-", "-", "-",
                      "-", "-", "-", "-", "-", "-", "-", "-", "-", "-", "\n">>)>>]

\* C9 as stated: the sections are in the fixed order and wherever one section ends
\* and the next begins, a divider line stands between them.
C9_DividerBetweenAllSections ==
    Returned =>
        /\ SectionsInOrder(details_text)
        /\ \A i \in 1..(Len(details_text.lines) - 1) :
              LET a == details_text.lines[i].tag
                  b == details_text.lines[i + 1].tag
              IN  (a # "divider" /\ b # "divider") => SectionOf(a) = SectionOf(b)

\* C9 amended: the sections are in the fixed order; the divider of 20 dashes stands
\* after the trip notes and after the navigation link and nowhere else; the weather
\* section, the checklist and the trail link follow their predecessor without a
\* divider and start with a blank line.
C9_DividersAfterNotesAndNav ==
    Returned =>
        LET l == details_text.lines
        IN  /\ SectionsInOrder(details_text)
            /\ \A i \in DOMAIN l :
                  l[i].tag = "divider" <=> (i > 1 /\ l[i - 1].tag \in {"notes", "nav"})
            /\ \A i \in DOMAIN l :
                  l[i].tag \in {"notes", "nav"} => i < Len(l) /\ l[i + 1] = DividerLine
            /\ \A i \in 2..Len(l) :
                  (SectionOf(l[i].tag) >= 4 /\ SectionOf(l[i - 1].tag) # SectionOf(l[i].tag))
                      => l[i].nl /\ l[i - 1].tag # "divider"

C9_Witness ==
    /\ Returned
    /\ form.custom_notes # <<>>
    /\ form.route_name # <<>>
    /\ CountOf(details_text, {"divider"}) = 2
    /\ Len(details_text.lines) >= 15

----------------------------------------------------------------------------
(* Properties of the date-range token (checked under SpecCal) *)

DigitValue(c) == CHOOSE v \in 0..9 : Digits[v + 1] = c

RECURSIVE Decimal(_)
Decimal(chars) ==
    IF chars = <<>> THEN 0
    ELSE 10 * Decimal(SubSeq(chars, 1, Len(chars) - 1)) + DigitValue(chars[Len(chars)])

IsDigits(chars) == \A i \in DOMAIN chars : \E v \in 0..9 : Digits[v + 1] = chars[i]

\* a compact YYYYMMDDTHHMMSS stamp read back as <<date, time>>
ReadStamp(st) ==
    <<<<Decimal(SubSeq(st, 1, 4)), Decimal(SubSeq(st, 5, 6)), Decimal(SubSeq(st, 7, 8))>>,
      <<Decimal(SubSeq(st, 10, 11)), Decimal(SubSeq(st, 12, 13)),
        Decimal(SubSeq(st, 14, 15))>>>>

IsStamp(st) ==
    /\ Len(st) = 15
    /\ st[9] = "T"
    /\ IsDigits(SubSeq(st, 1, 8))
    /\ IsDigits(SubSeq(st, 10, 15))

MonthLength(y, m) ==
    CASE m \in {1, 3, 5, 7, 8, 10, 12} -> 31
      [] m \in {4, 6, 9, 11} -> 30
      [] m = 2 -> IF (y % 4 = 0 /\ y % 100 # 0) \/ y % 400 = 0 THEN 29 ELSE 28

\* the calendar day after a date
DayAfter(d) ==
    IF d[3] < MonthLength(d[1], d[2]) THEN <<d[1], d[2], d[3] + 1>>
    ELSE IF d[2] < 12 THEN <<d[1], d[2] + 1, 1>>
    ELSE <<d[1] + 1, 1, 1>>

\* C8: the token is <start>/<end>, both compact stamps; the start is the picked date
\* and time; the end is 6 hours later: the same day at hour + 6 when the start is
\* before 18:00, otherwise the next calendar day at hour - 18, with an hour below 24;
\* 2024-03-01 06:00 gives 20240301T060000/20240301T120000.
C8_SixHoursLater ==
    run = "dates" =>
        LET first == SubSeq(dates_str, 1, 15)
            second == SubSeq(dates_str, 17, 31)
            d == form.hiking_date
            t == form.hiking_time
        IN  /\ Len(dates_str) = 31
            /\ dates_str[16] = "/"
            /\ IsStamp(first)
            /\ IsStamp(second)
            /\ ReadStamp(first) = <<d, t>>
            /\ ReadStamp(second)[2][1] < 24
            /\ ReadStamp(second) =
                  (IF t[1] < 18 THEN <<d, <<t[1] + 6, t[2], t[3]>>>>
                   ELSE <<DayAfter(d), <<t[1] - 18, t[2], t[3]>>>>)
            /\ (d = <<2024, 3, 1>> /\ t = <<6, 0, 0>>) =>
                  dates_str = <<"2", "0", "2", "4", "0", "3", "0", "1", "T",
                                "0", "6", "0", "0", "0", "0", "/",
                                "2", "0", "2", "4", "0", "3", "0", "1", "T",
                                "1", "2", "0", "0", "0", "0">>

\* a start on the last evening of a leap February: the end is on 29 February
C8_Witness ==
    /\ run = "dates"
    /\ form.hiking_date = <<2024, 2, 28>>
    /\ form.hiking_time = <<18, 45, 0>>
    /\ SubSeq(dates_str, 17, 31) = <<"2", "0", "2", "4", "0", "2", "2", "9", "T",
                                     "0", "0", "4", "5", "0", "0">>

----------------------------------------------------------------------------
(* Properties of the session (checked under Spec) *)

\* C5: when the forecast fetch of the most recent successful location search failed,
\* a form submission composes with weather_info = None.
C5_FailedFetchMeansNoForecast ==
    (run = "submit" /\ recent_search.located = "failed") => day_weather_info = NoWeather

C7_TableBelongsToCoords ==
    weather_df.has => (df_origin.coords = map_coords /\ df_origin.term = searched_mountain)

\* C10: a forecast day used in an itinerary has the itinerary's date and comes from
\* the table fetched for the destination the itinerary names.
C10_ForecastOfNamedDestination ==
    (run = "submit" /\ day_weather_info.present) =>
        /\ SubSeq(day_weather_info.sunrise.s, 1, 10) = FmtIso(form.hiking_date)
        /\ df_origin.term = form.target_name

====
